---- MODULE Spec2Model ----
(***************************************************************************)
(* Model of the browser VoiceSession of packages/fixie-web/src/voice.ts.   *)
(*                                                                         *)
(* The session is single-threaded and event driven.  Every action below is *)
(* one run-to-completion piece of the class: a public method up to its     *)
(* first await, the continuation after an await, or one event handler.     *)
(* Sockets and rooms are objects that outlive the fields that refer to     *)
(* them, so they are kept in slots: a slot is reused only when its object  *)
(* is dead and no field or suspended call refers to it any more.           *)
(***************************************************************************)
EXTENDS Integers, Sequences, FiniteSets, TLC

\* ---------------------------------------------------------------- bounds
MaxSockets == 2      \* WebSocket objects that exist at the same time
MaxLive == 1         \* of them, not yet closed, when the caller opens a socket only
                     \* after the close event of the one before
MaxRooms == 2        \* Room objects alive at the same time
MaxMicPend == 2      \* createLocalTracks() calls in flight
MaxStopPend == 1     \* stop() calls suspended at the await of line 173
MaxNow == 2          \* clock ticks that performance.now() advances
MaxTranscript == 7   \* characters of output transcript that are accumulated

Sockets == 1..MaxSockets
Rooms == 1..MaxRooms

\* ------------------------------------------------------- VoiceSessionState
DISCONNECTED == "disconnected"
CONNECTING == "connecting"
CONNECTED == "connected"
IDLE == "idle"
LISTENING == "listening"
THINKING == "thinking"
SPEAKING == "speaking"
VoiceSessionState == {DISCONNECTED, CONNECTING, CONNECTED, IDLE, LISTENING, THINKING, SPEAKING}

\* msg.state of an inbound data message is whatever the peer sent: the tags that
\* only a message can set, the one warmup() tests, and a string that is no tag
InboundStates == {DISCONNECTED, LISTENING, SPEAKING, "bogus"}

\* this.conversationId when the caller passed none, and the ids a peer may send
NoConversation == "undefined"
ConversationIds == {"abc", "xyz"}

\* close codes a CloseEvent may carry
CloseCodes == {1000, 1005, 1006, 1011}

VARIABLES
  state,                \* _state
  muted,                \* audioElement.muted
  socket,               \* this.socket: a slot, 0 for undefined
  sockState,            \* per socket slot: free, connecting, open, closing, closed
  audioStarted,         \* this.audioStarted
  started,              \* this.started
  room,                 \* this.room: a slot, 0 for undefined
  roomState,            \* per room slot: free, connecting, connected, disconnected
  localAudioTrack,      \* this.localAudioTrack is defined
  delayedSpeakingState, \* this.delayedSpeakingState
  inAnalyzer,           \* this.inAnalyzer is defined
  outAnalyzer,          \* this.outAnalyzer is defined
  pinger,               \* this.pinger holds a running interval timer
  leakedTimers,         \* some running interval timer had its handle overwritten
  urlValid,             \* params.webrtcUrl is a URL new WebSocket() accepts
  conversationId,       \* this.conversationId
  outputTranscript,     \* this.outputTranscript
  now,                  \* what performance.now() returns, in clock ticks
  pings,                \* the timestamps of the ping messages published so far
  micPend,              \* suspended awaits of createLocalTracks, by caller: start, audio
  stopPend,             \* suspended stop() calls: the room each one awaits (0: none)
  published,            \* publishTrack was called since the last stop()
  trackPublished,       \* the current localAudioTrack object was published since then
  last,                 \* the piece of code that ran last ("stop2": a stop() called
                        \* directly after a stop() that completed)
  emitted               \* the message it handled, if any, and the calls it made to
                        \* the outside, in order: <<operation, argument>> pairs

vars == <<state, muted, socket, sockState, audioStarted, started, room, roomState,
          localAudioTrack, delayedSpeakingState, inAnalyzer, outAnalyzer, pinger,
          leakedTimers, urlValid, conversationId, outputTranscript, now, pings,
          micPend, stopPend, published, trackPublished, last, emitted>>

\* a stop() that awaits `undefined` resumes in the same task: only the caller's own
\* synchronous code can run before it, no socket, room or timer event
NoMicrotask == \A i \in 1..Len(stopPend) : stopPend[i] # 0

RemoveAt(s, i) == SubSeq(s, 1, i - 1) \o SubSeq(s, i + 1, Len(s))

\* ------------------------------------------------------------ private helpers

\* changeState without the test of line 210: the observer is called on every call
changeState_always(st, mu, target) ==
  [state |-> target, muted |-> (target # SPEAKING),
   out |-> << <<"onStateChange", target>> >>]

\* changeState (lines 209-216): the new _state, audioElement.muted and observer calls
changeState(st, mu, target) ==
  IF target # st
    THEN [state |-> target, muted |-> (target # SPEAKING),
          out |-> << <<"onStateChange", target>> >>]
    ELSE [state |-> st, muted |-> mu, out |-> <<>>]

\* line 226 without its test of this.started
publishReady_noStarted(startedV, roomV, rs, track) ==
  roomV # 0 /\ rs[roomV] = "connected" /\ track

\* the condition of line 226
publishReady(startedV, roomV, rs, track) ==
  startedV /\ roomV # 0 /\ rs[roomV] = "connected" /\ track

\* maybePublishLocalAudio publishing only from the state handleSocketOpen leaves
maybePublishLocalAudio_fromConnected(st, mu, startedV, roomV, rs, track) ==
  IF publishReady(startedV, roomV, rs, track) /\ st = CONNECTED
    THEN LET c == changeState(st, mu, IDLE)
         IN [pub |-> 1, state |-> c.state, muted |-> c.muted,
             out |-> << <<"publishTrack", "audio">> >> \o c.out]
    ELSE [pub |-> 0, state |-> st, muted |-> mu, out |-> <<>>]

\* maybePublishLocalAudio without line 230: it publishes and leaves the state alone
maybePublishLocalAudio_keepState(st, mu, startedV, roomV, rs, track) ==
  IF publishReady(startedV, roomV, rs, track)
    THEN [pub |-> 1, state |-> st, muted |-> mu,
          out |-> << <<"publishTrack", "audio">> >>]
    ELSE [pub |-> 0, state |-> st, muted |-> mu, out |-> <<>>]

\* maybePublishLocalAudio (lines 225-238)
maybePublishLocalAudio(st, mu, startedV, roomV, rs, track) ==
  IF publishReady(startedV, roomV, rs, track)
    THEN LET c == changeState(st, mu, IDLE)
         IN [pub |-> 1, state |-> c.state, muted |-> c.muted,
             out |-> << <<"publishTrack", "audio">> >> \o c.out]
    ELSE [pub |-> 0, state |-> st, muted |-> mu, out |-> <<>>]

\* the calls of one kind in a step's log
Calls(em, op) == {i \in 1..Len(em) : em[i][1] = op}
Has(em, op) == Calls(em, op) # {}

\* sendData without the ?. of line 241: it publishes whether or not a room is held
sendData_anyRoom(roomV, type) ==
  << <<"publishData", type>> >>

\* sendData (lines 240-242): publishData on the room, if there is one
sendData(roomV, type) ==
  IF roomV # 0 THEN << <<"publishData", type>> >> ELSE <<>>

\* ------------------------------------------------------------- object slots

Range(f) == {f[i] : i \in DOMAIN f}

\* a closed socket nothing refers to is garbage: its slot is free again
sockSlots(ss, sock) ==
  [s \in Sockets |-> IF ss[s] = "closed" /\ s # sock THEN "free" ELSE ss[s]]

\* a disconnected room that no field and no suspended stop() refers to is garbage
roomSlots(rs, roomV, sp) ==
  [r \in Rooms |-> IF rs[r] = "disconnected" /\ r # roomV /\ r \notin Range(sp)
                     THEN "free" ELSE rs[r]]

\* slots a new WebSocket can take (line 128 overwrites this.socket)
FreeSockets(ss) == {s \in Sockets : ss[s] \in {"free", "closed"}}

\* slots a new Room can take (line 275 overwrites this.room)
FreeRooms(rs, sp) ==
  {r \in Rooms : rs[r] \in {"free", "disconnected"} /\ r \notin Range(sp)}

Lowest(S) == CHOOSE x \in S : \A y \in S : x <= y

\* ------------------------------------------------------------------ warmup

\* warmup without the test of line 123, as the node package's VoiceSession has it
warmup_always(st, mu, sock, ss, valid) ==
  IF ~valid \/ FreeSockets(ss) = {}
    THEN [state |-> st, muted |-> mu, socket |-> sock, sockState |-> ss, out |-> <<>>]
    ELSE LET s == Lowest(FreeSockets(ss))
             c == changeState(st, mu, CONNECTING)
         IN [state |-> c.state, muted |-> c.muted, socket |-> s,
             sockState |-> sockSlots([ss EXCEPT ![s] = "connecting"], s),
             out |-> << <<"newWebSocket", "url">> >> \o c.out]

\* a warmup that opens nothing
warmup_noop(st, mu, sock, ss, valid) ==
  [state |-> st, muted |-> mu, socket |-> sock, sockState |-> ss, out |-> <<>>]

\* warmup without the try of line 127: the exception of new WebSocket() escapes
warmup_throws(st, mu, sock, ss, valid) ==
  IF st # DISCONNECTED
    THEN [state |-> st, muted |-> mu, socket |-> sock, sockState |-> ss, out |-> <<>>]
    ELSE IF ~valid
      THEN [state |-> st, muted |-> mu, socket |-> sock, sockState |-> ss,
            out |-> << <<"throw", "SyntaxError">> >>]
      ELSE LET s == Lowest(FreeSockets(ss))
               c == changeState(st, mu, CONNECTING)
           IN [state |-> c.state, muted |-> c.muted, socket |-> s,
               sockState |-> sockSlots([ss EXCEPT ![s] = "connecting"], s),
               out |-> << <<"newWebSocket", "url">> >> \o c.out]

\* warmup (lines 121-139)
warmup(st, mu, sock, ss, valid) ==
  IF st # DISCONNECTED
    THEN [state |-> st, muted |-> mu, socket |-> sock, sockState |-> ss, out |-> <<>>]
    ELSE IF ~valid
      THEN \* new WebSocket(url) throws, caught at line 134
           [state |-> st, muted |-> mu, socket |-> sock, sockState |-> ss,
            out |-> << <<"onError", "Failed to create socket">> >>]
      ELSE LET s == Lowest(FreeSockets(ss))
               c == changeState(st, mu, CONNECTING)
           IN [state |-> c.state, muted |-> c.muted, socket |-> s,
               sockState |-> sockSlots([ss EXCEPT ![s] = "connecting"], s),
               out |-> << <<"newWebSocket", "url">> >> \o c.out]

\* sockets whose close event is still to come
LiveSockets(ss) == {s \in Sockets : ss[s] \in {"connecting", "open", "closing"}}

\* warmup() needs a socket slot when it is going to create a socket; n is the
\* number of sockets the caller lets exist before their close events
WarmupCan(n) ==
  state # DISCONNECTED \/ ~urlValid \/ Cardinality(LiveSockets(sockState)) < n

\* ----------------------------------------------------------------- the session

Init ==
  /\ state = DISCONNECTED
  /\ muted = FALSE
  /\ socket = 0
  /\ sockState = [s \in Sockets |-> "free"]
  /\ audioStarted = FALSE
  /\ started = FALSE
  /\ room = 0
  /\ roomState = [r \in Rooms |-> "free"]
  /\ localAudioTrack = FALSE
  /\ delayedSpeakingState = FALSE
  /\ inAnalyzer = FALSE
  /\ outAnalyzer = FALSE
  /\ pinger = FALSE
  /\ leakedTimers = FALSE
  /\ urlValid \in BOOLEAN
  /\ conversationId = NoConversation
  /\ outputTranscript = ""
  /\ now = 0
  /\ pings = {}
  /\ micPend = [start |-> 0, audio |-> 0]
  /\ stopPend = <<>>
  /\ published = FALSE
  /\ trackPublished = FALSE
  /\ last = "constructor"
  /\ emitted = <<>>

\* public warmup()
Warmup(n) ==
  /\ WarmupCan(n)
  /\ LET w == warmup(state, muted, socket, sockState, urlValid)
     IN /\ state' = w.state
        /\ muted' = w.muted
        /\ socket' = w.socket
        /\ sockState' = w.sockState
        /\ emitted' = w.out
  /\ last' = "warmup"
  /\ UNCHANGED <<audioStarted, started, room, roomState, localAudioTrack,
                 delayedSpeakingState, inAnalyzer, outAnalyzer, pinger, leakedTimers,
                 urlValid, now, pings, outputTranscript, conversationId, micPend, stopPend, published, trackPublished>>

MicPending == micPend.start + micPend.audio

\* start() (lines 154-166) up to its return or its await of startAudio()
start(n) ==
  /\ WarmupCan(n)
  /\ LET w == warmup(state, muted, socket, sockState, urlValid)
     IN /\ socket' = w.socket
        /\ sockState' = w.sockState
        /\ IF started
             THEN \* lines 157-160
                  /\ state' = w.state
                  /\ muted' = w.muted
                  /\ emitted' = w.out \o << <<"warn", "Already started">> >>
                  /\ last' = "start:already"
                  /\ UNCHANGED <<started, micPend, published, trackPublished>>
             ELSE IF ~audioStarted
               THEN \* line 162: startAudio() runs up to createLocalTracks
                    /\ MicPending < MaxMicPend
                    /\ micPend' = [micPend EXCEPT !.start = @ + 1]
                    /\ state' = w.state
                    /\ muted' = w.muted
                    /\ emitted' = w.out \o << <<"createLocalTracks", "audio">> >>
                    /\ last' = "start:await"
                    /\ UNCHANGED <<started, published, trackPublished>>
               ELSE \* lines 164-165
                    LET p == maybePublishLocalAudio(w.state, w.muted, TRUE, room,
                                                    roomState, localAudioTrack)
                    IN /\ started' = TRUE
                       /\ state' = p.state
                       /\ muted' = p.muted
                       /\ emitted' = w.out \o p.out
                       /\ published' = (published \/ p.pub = 1)
                       /\ trackPublished' = (trackPublished \/ p.pub = 1)
                       /\ last' = "start:done"
                       /\ UNCHANGED micPend
  /\ UNCHANGED <<audioStarted, room, roomState, localAudioTrack, delayedSpeakingState,
                 inAnalyzer, outAnalyzer, pinger, leakedTimers, urlValid, now, pings, outputTranscript, conversationId, stopPend>>

\* public startAudio() (lines 142-146) up to its await of createLocalTracks
startAudio ==
  /\ MicPending < MaxMicPend
  /\ micPend' = [micPend EXCEPT !.audio = @ + 1]
  /\ emitted' = << <<"createLocalTracks", "audio">> >>
  /\ last' = "startAudio:await"
  /\ UNCHANGED <<state, muted, socket, sockState, audioStarted, started, room, roomState,
                 localAudioTrack, delayedSpeakingState, inAnalyzer, outAnalyzer, pinger,
                 leakedTimers, urlValid, now, pings, outputTranscript, conversationId, stopPend, published, trackPublished>>

\* createLocalTracks resolves for a suspended start(): lines 147-150, then 164-165
startResumed ==
  /\ NoMicrotask
  /\ micPend.start > 0
  /\ micPend' = [micPend EXCEPT !.start = @ - 1]
  /\ localAudioTrack' = TRUE
  /\ inAnalyzer' = TRUE
  /\ audioStarted' = TRUE
  /\ started' = TRUE
  /\ LET p == maybePublishLocalAudio(state, muted, TRUE, room, roomState, TRUE)
     IN /\ state' = p.state
        /\ muted' = p.muted
        /\ emitted' = p.out
        /\ published' = (published \/ p.pub = 1)
        /\ trackPublished' = (p.pub = 1)
  /\ last' = "start:done"
  /\ UNCHANGED <<socket, sockState, room, roomState, delayedSpeakingState, outAnalyzer,
                 pinger, leakedTimers, urlValid, now, pings, outputTranscript, conversationId, stopPend>>

\* createLocalTracks resolves for a suspended public startAudio(): lines 147-150
startAudioResumed ==
  /\ NoMicrotask
  /\ micPend.audio > 0
  /\ micPend' = [micPend EXCEPT !.audio = @ - 1]
  /\ localAudioTrack' = TRUE
  /\ inAnalyzer' = TRUE
  /\ audioStarted' = TRUE
  /\ trackPublished' = FALSE
  /\ emitted' = <<>>
  /\ last' = "startAudio:done"
  /\ UNCHANGED <<state, muted, socket, sockState, started, room, roomState,
                 delayedSpeakingState, outAnalyzer, pinger, leakedTimers, urlValid, now, pings, outputTranscript, conversationId,
                 stopPend, published>>

\* a start() that marks the session started although createLocalTracks rejected
micRejected_markStarted(who) ==
  /\ NoMicrotask
  /\ who \in {"start", "audio"}
  /\ micPend[who] > 0
  /\ micPend' = [micPend EXCEPT ![who] = @ - 1]
  /\ started' = (started \/ who = "start")
  /\ emitted' = << <<"reject", who>> >>
  /\ last' = IF who = "start" THEN "start:rejected" ELSE "startAudio:rejected"
  /\ UNCHANGED <<state, muted, socket, sockState, audioStarted, room, roomState,
                 localAudioTrack, delayedSpeakingState, inAnalyzer, outAnalyzer, pinger,
                 leakedTimers, urlValid, now, pings, outputTranscript, conversationId,
                 stopPend, published, trackPublished>>

\* createLocalTracks rejects (permission denied, no device): the await of line 146
\* throws, and startAudio() and the start() awaiting it reject, touching no field
micRejected(who) ==
  /\ NoMicrotask
  /\ who \in {"start", "audio"}
  /\ micPend[who] > 0
  /\ micPend' = [micPend EXCEPT ![who] = @ - 1]
  /\ emitted' = << <<"reject", who>> >>
  /\ last' = IF who = "start" THEN "start:rejected" ELSE "startAudio:rejected"
  /\ UNCHANGED <<state, muted, socket, sockState, audioStarted, started, room, roomState,
                 localAudioTrack, delayedSpeakingState, inAnalyzer, outAnalyzer, pinger,
                 leakedTimers, urlValid, now, pings, outputTranscript, conversationId, stopPend, published, trackPublished>>

\* stop() (lines 169-173) up to its await of this.room?.disconnect().  A room that is
\* still connecting has its connect aborted by the disconnect() call.
stop ==
  /\ Len(stopPend) < MaxStopPend
  /\ stopPend' = Append(stopPend, room)
  /\ pinger' = FALSE
  /\ roomState' = IF room # 0 /\ roomState[room] = "connecting"
                    THEN [roomState EXCEPT ![room] = "disconnected"]
                    ELSE roomState
  /\ emitted' = (IF pinger THEN << <<"clearInterval", "pinger">> >> ELSE <<>>)
                \o (IF room # 0 THEN << <<"disconnect", "room">> >> ELSE <<>>)
  /\ published' = FALSE
  /\ trackPublished' = FALSE
  /\ last' = IF last \in {"stop:done", "stop2:done"} THEN "stop2:await" ELSE "stop:await"
  /\ UNCHANGED <<state, muted, socket, sockState, audioStarted, started, room,
                 localAudioTrack, delayedSpeakingState, inAnalyzer, outAnalyzer,
                 leakedTimers, urlValid, now, pings, outputTranscript, conversationId, micPend>>

\* what lines 175-181 do to the outside
stopEffects(inA, outA, track, sock) ==
  (IF inA THEN << <<"analyzerStop", "in">> >> ELSE <<>>)
  \o (IF outA THEN << <<"analyzerStop", "out">> >> ELSE <<>>)
  \o (IF track THEN << <<"trackStop", "local">> >> ELSE <<>>)
  \o (IF sock # 0 THEN << <<"socketClose", "socket">> >> ELSE <<>>)

\* socket.close() (line 181) on each readyState
closeSocket(sock, ss) ==
  IF sock # 0 /\ ss[sock] \in {"connecting", "open"}
    THEN [ss EXCEPT ![sock] = "closing"]
    ELSE ss

\* stop() without line 185: the analyzers are dropped and the state is left as it was
stopTail_keepState(st, mu, sock, ss, inA, outA, track) ==
  [room |-> 0, inAnalyzer |-> FALSE, outAnalyzer |-> FALSE, localAudioTrack |-> FALSE,
   socket |-> 0, sockState |-> sockSlots(closeSocket(sock, ss), 0),
   audioStarted |-> FALSE, started |-> FALSE, state |-> st, muted |-> mu,
   out |-> stopEffects(inA, outA, track, sock)]

\* lines 174-185 of stop(): the fields after them and what they did
stopTail(st, mu, sock, ss, inA, outA, track) ==
  LET c == changeState(st, mu, DISCONNECTED)
  IN [room |-> 0, inAnalyzer |-> FALSE, outAnalyzer |-> FALSE, localAudioTrack |-> FALSE,
      socket |-> 0, sockState |-> sockSlots(closeSocket(sock, ss), 0),
      audioStarted |-> FALSE, started |-> FALSE,
      state |-> c.state, muted |-> c.muted,
      out |-> stopEffects(inA, outA, track, sock) \o c.out]

\* the awaited disconnect() resolved: lines 174-185 run to the end
stopResumed(i) ==
  /\ i \in 1..Len(stopPend)
  /\ stopPend[i] = 0 \/ NoMicrotask
  /\ stopPend' = RemoveAt(stopPend, i)
  /\ LET t == stopTail(state, muted, socket, sockState, inAnalyzer, outAnalyzer,
                       localAudioTrack)
         rs == IF stopPend[i] # 0
                 THEN [roomState EXCEPT ![stopPend[i]] = "disconnected"]
                 ELSE roomState
     IN /\ room' = t.room
        /\ roomState' = roomSlots(rs, t.room, stopPend')
        /\ inAnalyzer' = t.inAnalyzer
        /\ outAnalyzer' = t.outAnalyzer
        /\ localAudioTrack' = t.localAudioTrack
        /\ socket' = t.socket
        /\ sockState' = t.sockState
        /\ audioStarted' = t.audioStarted
        /\ started' = t.started
        /\ state' = t.state
        /\ muted' = t.muted
        /\ emitted' = t.out
  /\ published' = FALSE
  /\ trackPublished' = FALSE
  /\ last' = IF last = "stop2:await" THEN "stop2:done" ELSE "stop:done"
  /\ UNCHANGED <<delayedSpeakingState, pinger, leakedTimers, urlValid, now, pings, outputTranscript, conversationId, micPend>>

\* the awaited disconnect() rejected: stop() has no try, so it rejects at line 173
\* and lines 174-185 never run
stopRejected(i) ==
  /\ NoMicrotask
  /\ i \in 1..Len(stopPend)
  /\ stopPend[i] # 0
  /\ stopPend' = RemoveAt(stopPend, i)
  /\ roomState' = roomSlots(roomState, room, stopPend')
  /\ emitted' = << <<"reject", "stop">> >>
  /\ last' = "stop:rejected"
  /\ UNCHANGED <<state, muted, socket, sockState, audioStarted, started, room,
                 localAudioTrack, delayedSpeakingState, inAnalyzer, outAnalyzer, pinger,
                 leakedTimers, urlValid, now, pings, outputTranscript, conversationId, micPend, published, trackPublished>>

\* interrupt() (lines 189-197)
interrupt ==
  /\ emitted' = IF ~started
                  THEN << <<"warn", "Not started">> >>
                  ELSE sendData(room, "interrupt")
  /\ last' = "interrupt"
  /\ UNCHANGED <<state, muted, socket, sockState, audioStarted, started, room, roomState,
                 localAudioTrack, delayedSpeakingState, inAnalyzer, outAnalyzer, pinger,
                 leakedTimers, urlValid, now, pings, outputTranscript, conversationId, micPend, stopPend, published, trackPublished>>

\* sendText without the test of line 201
sendText_anyState ==
  /\ emitted' = sendData(room, "input_text_message")
  /\ last' = "sendText"
  /\ UNCHANGED <<state, muted, socket, sockState, audioStarted, started, room, roomState,
                 localAudioTrack, delayedSpeakingState, inAnalyzer, outAnalyzer, pinger,
                 leakedTimers, urlValid, now, pings, outputTranscript, conversationId, micPend, stopPend, published,
                 trackPublished>>

\* sendText(text) (lines 200-207)
sendText ==
  /\ emitted' = IF state # LISTENING
                  THEN << <<"warn", "Not in LISTENING state">> >>
                  ELSE sendData(room, "input_text_message")
  /\ last' = "sendText"
  /\ UNCHANGED <<state, muted, socket, sockState, audioStarted, started, room, roomState,
                 localAudioTrack, delayedSpeakingState, inAnalyzer, outAnalyzer, pinger,
                 leakedTimers, urlValid, now, pings, outputTranscript, conversationId, micPend, stopPend, published, trackPublished>>

\* performance.now() advances
clockTick ==
  /\ now < MaxNow
  /\ now' = now + 1
  /\ emitted' = <<>>
  /\ last' = "clock"
  /\ UNCHANGED <<state, muted, socket, sockState, audioStarted, started, room, roomState,
                 localAudioTrack, delayedSpeakingState, inAnalyzer, outAnalyzer, pinger,
                 leakedTimers, urlValid, pings, outputTranscript, conversationId, micPend,
                 stopPend, published, trackPublished>>

\* an interval timer set by startPinger fires (lines 219-222): the ping carries
\* performance.now()
pingTick ==
  /\ NoMicrotask
  /\ pinger \/ leakedTimers
  /\ emitted' = sendData(room, "ping")
  /\ pings' = IF Has(emitted', "publishData") THEN pings \cup {now} ELSE pings
  /\ last' = "pinger"
  /\ UNCHANGED <<state, muted, socket, sockState, audioStarted, started, room, roomState,
                 localAudioTrack, delayedSpeakingState, inAnalyzer, outAnalyzer, pinger,
                 leakedTimers, urlValid, now, outputTranscript, conversationId, micPend, stopPend, published, trackPublished>>

\* this.socket?.send(...) (line 268) on each readyState of the socket the field holds
socketSend(sock, ss, type) ==
  IF sock = 0 THEN <<>>
  ELSE IF ss[sock] = "open" THEN << <<"socketSend", type>> >>
  ELSE IF ss[sock] = "connecting" THEN << <<"throw", "InvalidStateError">> >>
  ELSE <<>>

\* the init message of lines 247-267: what it sends, and the conversationId it carries
initMessage(sock, ss, cid) ==
  LET sent == socketSend(sock, ss, "init")
  IN IF Has(sent, "socketSend")
       THEN sent \o << <<"init.conversationId", cid>> >>
       ELSE sent

\* socket.onopen of socket s -> handleSocketOpen (lines 244-269)
handleSocketOpen(s) ==
  /\ NoMicrotask
  /\ sockState[s] = "connecting"
  /\ sockState' = [sockState EXCEPT ![s] = "open"]
  /\ LET c == changeState(state, muted, CONNECTED)
     IN /\ state' = c.state
        /\ muted' = c.muted
        /\ emitted' = c.out \o initMessage(socket, sockState', conversationId)
  /\ last' = "handleSocketOpen"
  /\ UNCHANGED <<socket, audioStarted, started, room, roomState, localAudioTrack,
                 delayedSpeakingState, inAnalyzer, outAnalyzer, pinger, leakedTimers,
                 urlValid, now, pings, outputTranscript, conversationId, micPend, stopPend, published, trackPublished>>

SocketMessages == {"room_info", "unknown", "malformed"}

\* socket.onmessage of socket s -> handleSocketMessage (lines 271-280, 285-287),
\* for room_info up to the await of room.connect(); the log starts with the message
handleSocketMessage(s, type) ==
  /\ NoMicrotask
  /\ sockState[s] = "open"
  /\ type \in SocketMessages
  /\ IF type = "room_info"
       THEN /\ FreeRooms(roomState, stopPend) # {}
            /\ LET r == Lowest(FreeRooms(roomState, stopPend))
               IN /\ room' = r
                  /\ roomState' = roomSlots([roomState EXCEPT ![r] = "connecting"],
                                            r, stopPend)
            /\ emitted' = << <<"message", type>>, <<"newRoom", "room">>,
                             <<"on", "TrackSubscribed">>, <<"on", "DataReceived">>,
                             <<"connect", "room">> >>
       ELSE /\ emitted' = << <<"message", type>> >>
                          \o (IF type = "malformed"
                                THEN << <<"throw", "SyntaxError">> >>
                                ELSE << <<"warn", "unknown message type">> >>)
            /\ UNCHANGED <<room, roomState>>
  /\ last' = "handleSocketMessage"
  /\ UNCHANGED <<state, muted, socket, sockState, audioStarted, started, localAudioTrack,
                 delayedSpeakingState, inAnalyzer, outAnalyzer, pinger, leakedTimers,
                 urlValid, now, pings, outputTranscript, conversationId, micPend, stopPend, published, trackPublished>>

\* room.connect() of room r resolved: the room is connected and the handler that
\* created it resumes (lines 281-284), reading this.room as it is now
roomConnected(r) ==
  /\ NoMicrotask
  /\ roomState[r] = "connecting"
  /\ roomState' = [roomState EXCEPT ![r] = "connected"]
  /\ IF room = 0
       THEN \* this.room.name on undefined: TypeError, the handler rejects
            /\ emitted' = << <<"throw", "TypeError">> >>
            /\ UNCHANGED <<state, muted, pinger, leakedTimers, published, trackPublished>>
       ELSE \* startPinger (lines 218-223) overwrites the handle it holds
            /\ leakedTimers' = (leakedTimers \/ pinger)
            /\ pinger' = TRUE
            /\ LET p == maybePublishLocalAudio(state, muted, started, room, roomState',
                                               localAudioTrack)
               IN /\ state' = p.state
                  /\ muted' = p.muted
                  /\ emitted' = << <<"setInterval", "pinger">> >> \o p.out
                  /\ published' = (published \/ p.pub = 1)
                  /\ trackPublished' = (trackPublished \/ p.pub = 1)
  /\ last' = "handleSocketMessage:connected"
  /\ UNCHANGED <<socket, sockState, audioStarted, started, room, localAudioTrack,
                 delayedSpeakingState, inAnalyzer, outAnalyzer, urlValid, now, pings, outputTranscript, conversationId, micPend,
                 stopPend>>

\* room.connect() of room r rejected: the handler rejects at line 280
roomConnectFailed(r) ==
  /\ NoMicrotask
  /\ roomState[r] = "connecting"
  /\ roomState' = roomSlots([roomState EXCEPT ![r] = "disconnected"], room, stopPend)
  /\ emitted' = << <<"reject", "handleSocketMessage">> >>
  /\ last' = "handleSocketMessage:rejected"
  /\ UNCHANGED <<state, muted, socket, sockState, audioStarted, started, room,
                 localAudioTrack, delayedSpeakingState, inAnalyzer, outAnalyzer, pinger,
                 leakedTimers, urlValid, now, pings, outputTranscript, conversationId, micPend, stopPend, published, trackPublished>>

\* handleSocketClose reporting no closure
socketClosed_noError(st, mu, sock, ss, valid, code) ==
  LET c == changeState(st, mu, DISCONNECTED)
  IN [state |-> c.state, muted |-> c.muted, socket |-> sock, sockState |-> ss,
      out |-> c.out]

\* lines 291-300 of handleSocketClose: the new _state, the socket field, which it
\* leaves alone, and the observer calls; ss is sockState with the closed socket
socketClosed(st, mu, sock, ss, valid, code) ==
  LET c == changeState(st, mu, DISCONNECTED)
  IN [state |-> c.state, muted |-> c.muted, socket |-> sock, sockState |-> ss,
      out |-> c.out \o (IF code = 1000 THEN <<>>
                        ELSE << <<"onError", "Socket closed unexpectedly">> >>)]

\* socket.onclose of socket s -> handleSocketClose (lines 290-301); the log starts
\* with the code of the CloseEvent
handleSocketClose(s, code) ==
  /\ NoMicrotask
  /\ sockState[s] \in {"connecting", "open", "closing"}
  /\ code \in CloseCodes
  /\ LET x == socketClosed(state, muted, socket,
                           sockSlots([sockState EXCEPT ![s] = "closed"], socket),
                           urlValid, code)
     IN /\ state' = x.state
        /\ muted' = x.muted
        /\ socket' = x.socket
        /\ sockState' = x.sockState
        /\ emitted' = << <<"close", ToString(code)>> >> \o x.out
  /\ last' = "handleSocketClose"
  /\ UNCHANGED <<audioStarted, started, room, roomState, localAudioTrack,
                 delayedSpeakingState, inAnalyzer, outAnalyzer, pinger, leakedTimers,
                 urlValid, now, pings, outputTranscript, conversationId, micPend, stopPend, published, trackPublished>>

\* lines 312-315 of handleTrackSubscribed: the new _state, muted, flag and observer calls
trackSubscribedResult(st, mu, delayed) ==
  IF delayed
    THEN LET c == changeState(st, mu, SPEAKING)
         IN [state |-> c.state, muted |-> c.muted, delayed |-> FALSE, out |-> c.out]
    ELSE [state |-> st, muted |-> mu, delayed |-> FALSE, out |-> <<>>]

\* RoomEvent.TrackSubscribed of room r -> handleTrackSubscribed (lines 303-316)
handleTrackSubscribed(r) ==
  /\ NoMicrotask
  /\ roomState[r] \in {"connecting", "connected"}
  /\ outAnalyzer' = TRUE
  /\ LET t == trackSubscribedResult(state, muted, delayedSpeakingState)
     IN /\ state' = t.state
        /\ muted' = t.muted
        /\ delayedSpeakingState' = t.delayed
        /\ emitted' = << <<"attach", "audioElement">> >> \o t.out
  /\ last' = "handleTrackSubscribed"
  /\ UNCHANGED <<socket, sockState, audioStarted, started, room, roomState,
                 localAudioTrack, inAnalyzer, pinger, leakedTimers, urlValid, now, pings, outputTranscript, conversationId, micPend,
                 stopPend, published, trackPublished>>

\* the data messages a peer may send: the branches of lines 320-344 that touch no
\* transcript or conversation field, an unrecognized type and a payload that is no JSON
StateMessages == [type : {"state"}, state : InboundStates]
\* JSON that lacks what its branch reads: a transcript message without a transcript
\* object (line 334), a latency message without a value (line 367)
IncompleteMessages == [type : {"transcript", "latency"}, state : {"incomplete"}]
OtherMessages ==
  [type : {"transcript", "unknown", "malformed"}, state : {"-"}] \cup IncompleteMessages
\* pong messages (lines 321-323) carry the timestamp of a ping, latency messages
\* (lines 340-341) a kind and a value
LatencyKinds == {"asr", "llm"}
LatencyValues == {0, 350}
LatencyMessages ==
  [type : {"pong"}, state : {"-"}, timestamp : 0..MaxNow]
    \cup [type : {"latency"}, state : {"-"}, kind : LatencyKinds, value : LatencyValues]
\* voice_synced_transcript messages (lines 338-339): a text or a delta, either of
\* which may be empty or absent, and the final flag
TranscriptTexts == {"", "Hi"}
TranscriptDeltas == {"", "He", "llo"}
TranscriptMessages ==
  [type : {"voice_synced_transcript"}, state : {"-"}, text : TranscriptTexts,
   delta : TranscriptDeltas, final : BOOLEAN]
\* conversation_created messages (lines 342-344) carry an id
ConversationMessages == [type : {"conversation_created"}, state : ConversationIds]
DataMessages ==
  StateMessages \cup OtherMessages \cup ConversationMessages \cup LatencyMessages
    \cup TranscriptMessages

\* the handled message as the step's log shows it
inbound(msg) ==
  << <<msg.type, msg.state>> >>
  \o (IF msg.type = "pong"
        THEN << <<"msg.timestamp", ToString(msg.timestamp)>> >>
      ELSE IF msg.type = "latency" /\ msg.state # "incomplete"
        THEN << <<"msg.kind", msg.kind>>, <<"msg.value", ToString(msg.value)>> >>
      ELSE IF msg.type = "voice_synced_transcript"
        THEN << <<"msg.text", msg.text>>, <<"msg.delta", msg.delta>>,
                <<"msg.final", ToString(msg.final)>> >>
      ELSE <<>>)

\* handleLatency (lines 366-369): the observer gets the metric and the value
handleLatency(metric, value) ==
  << <<"onLatencyChange", metric>>, <<"onLatencyChange.value", ToString(value)>> >>

\* line 321 with the operands exchanged
elapsed_ms_reversed(nowV, timestamp) == timestamp - nowV

\* line 321: performance.now() - msg.timestamp
elapsed_ms(nowV, timestamp) == nowV - timestamp

\* lines 320-323 and 340-341 of handleDataReceived
latencyResult(nowV, msg) ==
  IF msg.type = "pong" THEN handleLatency("workerRtt", elapsed_ms(nowV, msg.timestamp))
  ELSE IF msg.type = "latency" /\ msg.state # "incomplete"
    THEN handleLatency(msg.kind, msg.value)
  ELSE <<>>

\* handleOutputTranscript where a delta replaces the transcript
handleOutputTranscript_replace(acc, msg) ==
  LET shown == IF msg.text # "" THEN msg.text
               ELSE IF msg.delta # "" THEN msg.delta
               ELSE acc
  IN [outputTranscript |-> IF msg.final THEN "" ELSE shown,
      out |-> << <<"onOutputChange", shown>>,
                 <<"onOutputChange.final", ToString(msg.final)>> >>]

\* handleOutputTranscript (lines 354-364): the transcript it leaves and the observer
\* call it makes; an absent text or delta is as falsy as an empty one
handleOutputTranscript(acc, msg) ==
  LET shown == IF msg.text # "" THEN msg.text
               ELSE IF msg.delta # "" THEN acc \o msg.delta
               ELSE acc
  IN [outputTranscript |-> IF msg.final THEN "" ELSE shown,
      out |-> << <<"onOutputChange", shown>>,
                 <<"onOutputChange.final", ToString(msg.final)>> >>]

\* lines 338-339 of handleDataReceived
transcriptResult(acc, msg) ==
  IF msg.type = "voice_synced_transcript"
    THEN handleOutputTranscript(acc, msg)
    ELSE [outputTranscript |-> acc, out |-> <<>>]

\* handleDataReceived without the test of line 325: speaking is applied at once
dataReceivedResult_noDefer(st, mu, outA, delayed, msg) ==
  IF msg.type = "state"
    THEN LET c == changeState(st, mu, msg.state)
         IN [state |-> c.state, muted |-> c.muted, delayed |-> delayed, out |-> c.out]
    ELSE [state |-> st, muted |-> mu, delayed |-> delayed, out |-> <<>>]

\* handleDataReceived with a final branch that reports a type it does not know
dataReceivedResult_strict(st, mu, outA, delayed, msg) ==
  IF msg.type = "state" /\ ~(msg.state = SPEAKING /\ ~outA)
    THEN LET c == changeState(st, mu, msg.state)
         IN [state |-> c.state, muted |-> c.muted, delayed |-> delayed, out |-> c.out]
  ELSE IF msg.type = "state"
    THEN [state |-> st, muted |-> mu, delayed |-> TRUE, out |-> <<>>]
  ELSE IF msg.type = "unknown"
    THEN [state |-> st, muted |-> mu, delayed |-> delayed,
          out |-> << <<"onError", "unknown message type">> >>]
  ELSE [state |-> st, muted |-> mu, delayed |-> delayed, out |-> <<>>]

\* lines 319, 324-337 of handleDataReceived, and the TypeError of line 334 or 367
\* when the message lacks the field read there
dataReceivedResult(st, mu, outA, delayed, msg) ==
  IF msg.type = "malformed"
    THEN [state |-> st, muted |-> mu, delayed |-> delayed,
          out |-> << <<"throw", "SyntaxError">> >>]
  ELSE IF msg.state = "incomplete"
    THEN [state |-> st, muted |-> mu, delayed |-> delayed,
          out |-> << <<"throw", "TypeError">> >>]
  ELSE IF msg.type = "state"
    THEN IF msg.state = SPEAKING /\ ~outA
           THEN [state |-> st, muted |-> mu, delayed |-> TRUE, out |-> <<>>]
           ELSE LET c == changeState(st, mu, msg.state)
                IN [state |-> c.state, muted |-> c.muted, delayed |-> delayed,
                    out |-> c.out]
  ELSE IF msg.type = "transcript"
    THEN [state |-> st, muted |-> mu, delayed |-> delayed,
          out |-> << <<"onInputChange", "text">> >>]
  ELSE [state |-> st, muted |-> mu, delayed |-> delayed, out |-> <<>>]

\* line 343 guarded: only the first id is stored
conversationCreated_once(cid, msg) ==
  IF msg.type = "conversation_created" /\ cid = NoConversation THEN msg.state ELSE cid

\* line 343 without a test: the id of every conversation_created message is stored
conversationCreated(cid, msg) ==
  IF msg.type = "conversation_created" THEN msg.state ELSE cid

\* RoomEvent.DataReceived of room r -> handleDataReceived (lines 318-345)
handleDataReceived(r, msg) ==
  /\ NoMicrotask
  /\ roomState[r] \in {"connecting", "connected"}
  /\ msg \in DataMessages
  /\ msg.type = "voice_synced_transcript"
       => Len(outputTranscript) + Len(msg.delta) <= MaxTranscript
  /\ LET d == dataReceivedResult(state, muted, outAnalyzer, delayedSpeakingState, msg)
         t == transcriptResult(outputTranscript, msg)
     IN /\ state' = d.state
        /\ muted' = d.muted
        /\ delayedSpeakingState' = d.delayed
        /\ outputTranscript' = t.outputTranscript
        /\ emitted' = inbound(msg) \o d.out \o latencyResult(now, msg) \o t.out
  /\ conversationId' = conversationCreated(conversationId, msg)
  /\ last' = "handleDataReceived"
  /\ UNCHANGED <<socket, sockState, audioStarted, started, room, roomState,
                 localAudioTrack, inAnalyzer, outAnalyzer, pinger, leakedTimers, urlValid,
                 now, pings, micPend, stopPend, published, trackPublished>>

\* what the caller and the peers do that changes a field of the session
Next ==
  \/ Warmup(MaxLive)
  \/ start(MaxLive)
  \/ startAudio
  \/ startResumed
  \/ startAudioResumed
  \/ \E who \in {"start", "audio"} : micRejected(who)
  \/ stop
  \/ \E i \in 1..MaxStopPend : stopResumed(i)
  \/ \E i \in 1..MaxStopPend : stopRejected(i)
  \/ \E s \in Sockets : handleSocketOpen(s)
  \/ \E s \in Sockets : handleSocketMessage(s, "room_info")
  \/ \E s \in Sockets, code \in CloseCodes : handleSocketClose(s, code)
  \/ \E r \in Rooms : roomConnected(r)
  \/ \E r \in Rooms : roomConnectFailed(r)
  \/ \E r \in Rooms : handleTrackSubscribed(r)
  \/ \E r \in Rooms, msg \in StateMessages : handleDataReceived(r, msg)

Spec == Init /\ [][Next]_vars

\* a caller that leaves microphone capture to start(): Next without startAudio()
NextSession ==
  \/ Warmup(MaxLive)
  \/ start(MaxLive)
  \/ startResumed
  \/ micRejected("start")
  \/ stop
  \/ \E i \in 1..MaxStopPend : stopResumed(i)
  \/ \E i \in 1..MaxStopPend : stopRejected(i)
  \/ \E s \in Sockets : handleSocketOpen(s)
  \/ \E s \in Sockets : handleSocketMessage(s, "room_info")
  \/ \E s \in Sockets, code \in CloseCodes : handleSocketClose(s, code)
  \/ \E r \in Rooms : roomConnected(r)
  \/ \E r \in Rooms : roomConnectFailed(r)
  \/ \E r \in Rooms : handleTrackSubscribed(r)
  \/ \E r \in Rooms, msg \in StateMessages : handleDataReceived(r, msg)

\* the calls and messages that change no field: they only send, warn or throw
NextIO ==
  \/ NextSession
  \/ interrupt
  \/ sendText
  \/ \E s \in Sockets, type \in {"unknown", "malformed"} : handleSocketMessage(s, type)
  \/ \E r \in Rooms, msg \in OtherMessages : handleDataReceived(r, msg)

SpecIO == Init /\ [][NextIO]_vars

\* one socket after the other, their rooms, and the conversation the peer announces
NextConv ==
  \/ Warmup(MaxLive)
  \/ start(MaxLive)
  \/ startResumed
  \/ stop
  \/ \E i \in 1..MaxStopPend : stopResumed(i)
  \/ \E s \in Sockets : handleSocketOpen(s)
  \/ \E s \in Sockets : handleSocketMessage(s, "room_info")
  \/ \E s \in Sockets, code \in CloseCodes : handleSocketClose(s, code)
  \/ \E r \in Rooms : roomConnected(r)
  \/ \E r \in Rooms, msg \in ConversationMessages : handleDataReceived(r, msg)

SpecConv == Init /\ [][NextConv]_vars

\* a caller that does not wait for the close event of the socket it stopped before
\* it warms up again
NextSock ==
  \/ Warmup(MaxSockets)
  \/ start(MaxSockets)
  \/ startResumed
  \/ stop
  \/ \E i \in 1..MaxStopPend : stopResumed(i)
  \/ \E s \in Sockets : handleSocketOpen(s)
  \/ \E s \in Sockets : handleSocketMessage(s, "room_info")
  \/ \E s \in Sockets, code \in CloseCodes : handleSocketClose(s, code)
  \/ \E r \in Rooms : roomConnected(r)

SpecSock == Init /\ [][NextSock]_vars

\* a connected room, its ping timer, the clock, and the peer's pong and latency
\* messages
NextLatency ==
  \/ Warmup(MaxLive)
  \/ \E s \in Sockets : handleSocketOpen(s)
  \/ \E s \in Sockets : handleSocketMessage(s, "room_info")
  \/ \E r \in Rooms : roomConnected(r)
  \/ clockTick
  \/ pingTick
  \/ \E r \in Rooms, msg \in LatencyMessages : handleDataReceived(r, msg)

SpecLatency == Init /\ [][NextLatency]_vars

\* a room and the playback transcripts the peer sends over it
NextTranscript ==
  \/ Warmup(MaxLive)
  \/ \E s \in Sockets : handleSocketOpen(s)
  \/ \E s \in Sockets : handleSocketMessage(s, "room_info")
  \/ \E r \in Rooms : roomConnected(r)
  \/ \E r \in Rooms, msg \in TranscriptMessages : handleDataReceived(r, msg)

SpecTranscript == Init /\ [][NextTranscript]_vars

\* ------------------------------ the VoiceSession of packages/fixie/src/voice.ts
\* The node package's class has the same fields; it has no Disconnected state, its
\* constructor warms up, and its close handler tells three kinds of code apart.

\* changeState (lines 406-412): there is no playback element to mute
changeStateNode(st, target) ==
  IF target # st
    THEN [state |-> target, out |-> << <<"onStateChange", target>> >>]
    ELSE [state |-> st, out |-> <<>>]

\* warmup (lines 334-343): no test of the state; the socket the field held is
\* neither closed nor detached from its handlers
warmupNode(sock, ss) ==
  LET s == Lowest(FreeSockets(ss))
  IN [socket |-> s, sockState |-> sockSlots([ss EXCEPT ![s] = "connecting"], s),
      out |-> << <<"newWebSocket", "url">> >>]

\* the session after its constructor (lines 309-316), which calls warmup()
InitNode ==
  /\ state = IDLE
  /\ muted = FALSE
  /\ socket = 1
  /\ sockState = [s \in Sockets |-> IF s = 1 THEN "connecting" ELSE "free"]
  /\ audioStarted = FALSE
  /\ started = FALSE
  /\ room = 0
  /\ roomState = [r \in Rooms |-> "free"]
  /\ localAudioTrack = FALSE
  /\ delayedSpeakingState = FALSE
  /\ inAnalyzer = FALSE
  /\ outAnalyzer = FALSE
  /\ pinger = FALSE
  /\ leakedTimers = FALSE
  /\ urlValid = TRUE
  /\ conversationId = NoConversation
  /\ outputTranscript = ""
  /\ now = 0
  /\ pings = {}
  /\ micPend = [start |-> 0, audio |-> 0]
  /\ stopPend = <<>>
  /\ published = FALSE
  /\ trackPublished = FALSE
  /\ last = "constructor"
  /\ emitted = << <<"newWebSocket", "url">> >>

\* public warmup()
WarmupNode ==
  /\ FreeSockets(sockState) # {}
  /\ LET w == warmupNode(socket, sockState)
     IN /\ socket' = w.socket
        /\ sockState' = w.sockState
        /\ emitted' = w.out
  /\ audioStarted' = FALSE
  /\ started' = FALSE
  /\ last' = "warmup"
  /\ UNCHANGED <<state, muted, room, roomState, localAudioTrack, delayedSpeakingState,
                 inAnalyzer, outAnalyzer, pinger, leakedTimers, urlValid, now, pings,
                 outputTranscript, conversationId, micPend, stopPend, published,
                 trackPublished>>

\* stop() (lines 376-393) up to its await of this.room?.disconnect()
stopNode ==
  /\ Len(stopPend) < MaxStopPend
  /\ pinger' = FALSE
  /\ stopPend' = Append(stopPend, room)
  /\ roomState' = IF room # 0 /\ roomState[room] = "connecting"
                    THEN [roomState EXCEPT ![room] = "disconnected"]
                    ELSE roomState
  /\ emitted' = (IF pinger THEN << <<"clearInterval", "pinger">> >> ELSE <<>>)
                 \o (IF room # 0 THEN << <<"disconnect", "room">> >> ELSE <<>>)
  /\ last' = "stop:await"
  /\ UNCHANGED <<state, muted, socket, sockState, audioStarted, started, room,
                 localAudioTrack, delayedSpeakingState, inAnalyzer, outAnalyzer,
                 leakedTimers, urlValid, now, pings, outputTranscript, conversationId,
                 micPend, published, trackPublished>>

\* the awaited disconnect() resolved: lines 381-392 run to the end
stopResumedNode(i) ==
  /\ i \in 1..Len(stopPend)
  /\ stopPend[i] = 0 \/ NoMicrotask
  /\ stopPend' = RemoveAt(stopPend, i)
  /\ LET c == changeStateNode(state, IDLE)
         rs == IF stopPend[i] # 0
                 THEN [roomState EXCEPT ![stopPend[i]] = "disconnected"]
                 ELSE roomState
     IN /\ room' = 0
        /\ roomState' = roomSlots(rs, 0, stopPend')
        /\ state' = c.state
        /\ emitted' = stopEffects(inAnalyzer, outAnalyzer, localAudioTrack, socket)
                        \o c.out
  /\ inAnalyzer' = FALSE
  /\ outAnalyzer' = FALSE
  /\ localAudioTrack' = FALSE
  /\ sockState' = sockSlots(closeSocket(socket, sockState), 0)
  /\ socket' = 0
  /\ audioStarted' = FALSE
  /\ started' = FALSE
  /\ last' = "stop:done"
  /\ UNCHANGED <<muted, delayedSpeakingState, pinger, leakedTimers, urlValid, now, pings,
                 outputTranscript, conversationId, micPend, published, trackPublished>>

\* socket.onopen of socket s -> handleSocketOpen (lines 432-454): the init message
\* goes to the socket the field holds
handleSocketOpenNode(s) ==
  /\ NoMicrotask
  /\ sockState[s] = "connecting"
  /\ sockState' = [sockState EXCEPT ![s] = "open"]
  /\ emitted' = initMessage(socket, sockState', conversationId)
  /\ last' = "handleSocketOpen"
  /\ UNCHANGED <<state, muted, socket, audioStarted, started, room, roomState,
                 localAudioTrack, delayedSpeakingState, inAnalyzer, outAnalyzer, pinger,
                 leakedTimers, urlValid, now, pings, outputTranscript, conversationId,
                 micPend, stopPend, published, trackPublished>>

\* lines 475-488 of handleSocketClose: code 1000 warms up again, code 1006 is only
\* logged, any other code goes to the error observer; ss is sockState with the
\* closed socket
socketClosedNode(sock, ss, code) ==
  IF code = 1000
    THEN warmupNode(sock, ss)
    ELSE [socket |-> sock, sockState |-> ss,
          out |-> IF code = 1006 THEN <<>> ELSE << <<"onError", "">> >>]

\* socket.onclose of socket s -> handleSocketClose (lines 474-489); the log starts
\* with the code of the CloseEvent
handleSocketCloseNode(s, code) ==
  /\ NoMicrotask
  /\ sockState[s] \in {"connecting", "open", "closing"}
  /\ code \in CloseCodes
  /\ LET x == socketClosedNode(socket,
                               sockSlots([sockState EXCEPT ![s] = "closed"], socket),
                               code)
     IN /\ socket' = x.socket
        /\ sockState' = x.sockState
        /\ emitted' = << <<"close", ToString(code)>> >> \o x.out
  /\ audioStarted' = (code # 1000 /\ audioStarted)
  /\ started' = (code # 1000 /\ started)
  /\ last' = "handleSocketClose"
  /\ UNCHANGED <<state, muted, room, roomState, localAudioTrack, delayedSpeakingState,
                 inAnalyzer, outAnalyzer, pinger, leakedTimers, urlValid, now, pings,
                 outputTranscript, conversationId, micPend, stopPend, published,
                 trackPublished>>

\* maybePublishLocalAudio (lines 414-426): it publishes and leaves the state alone
maybePublishLocalAudioNode(startedV, roomV, rs, track) ==
  IF publishReady(startedV, roomV, rs, track)
    THEN << <<"publishTrack", "audio">> >>
    ELSE <<>>

\* socket.onmessage of socket s -> handleSocketMessage (lines 456-472), for
\* room_info up to the await of room.connect() (461): no handler is on the room yet
handleSocketMessageNode(s, type) ==
  /\ NoMicrotask
  /\ sockState[s] = "open"
  /\ type \in SocketMessages
  /\ IF type = "room_info"
       THEN /\ FreeRooms(roomState, stopPend) # {}
            /\ LET r == Lowest(FreeRooms(roomState, stopPend))
               IN /\ room' = r
                  /\ roomState' = roomSlots([roomState EXCEPT ![r] = "connecting"],
                                            r, stopPend)
            /\ emitted' = << <<"message", type>>, <<"newRoom", "room">>,
                             <<"connect", "room">> >>
       ELSE /\ emitted' = << <<"message", type>> >>
                          \o (IF type = "malformed"
                                THEN << <<"throw", "SyntaxError">> >>
                                ELSE << <<"warn", "unknown message type">> >>)
            /\ UNCHANGED <<room, roomState>>
  /\ last' = "handleSocketMessage"
  /\ UNCHANGED <<state, muted, socket, sockState, audioStarted, started, localAudioTrack,
                 delayedSpeakingState, inAnalyzer, outAnalyzer, pinger, leakedTimers,
                 urlValid, now, pings, outputTranscript, conversationId, micPend,
                 stopPend, published, trackPublished>>

\* room.connect() of room r resolved: the handler that created it resumes (lines
\* 462-467) and only now puts the two handlers on the room the field holds
roomConnectedNode(r) ==
  /\ NoMicrotask
  /\ roomState[r] = "connecting"
  /\ roomState' = [roomState EXCEPT ![r] = "connected"]
  /\ emitted' = IF room = 0
                  THEN << <<"throw", "TypeError">> >>
                  ELSE maybePublishLocalAudioNode(started, room, roomState',
                                                  localAudioTrack)
                       \o << <<"on", "TrackSubscribed">>, <<"on", "DataReceived">> >>
  /\ published' = (published \/ Has(emitted', "publishTrack"))
  /\ trackPublished' = (trackPublished \/ Has(emitted', "publishTrack"))
  /\ last' = "handleSocketMessage:connected"
  /\ UNCHANGED <<state, muted, socket, sockState, audioStarted, started, room,
                 localAudioTrack, delayedSpeakingState, inAnalyzer, outAnalyzer, pinger,
                 leakedTimers, urlValid, now, pings, outputTranscript, conversationId,
                 micPend, stopPend>>

\* the node session's sockets and rooms: the caller warms up and stops, the sockets
\* open, carry messages and close, the rooms connect
NextNode ==
  \/ WarmupNode
  \/ stopNode
  \/ \E i \in 1..MaxStopPend : stopResumedNode(i)
  \/ \E s \in Sockets : handleSocketOpenNode(s)
  \/ \E s \in Sockets, type \in SocketMessages : handleSocketMessageNode(s, type)
  \/ \E r \in Rooms : roomConnectedNode(r)
  \/ \E s \in Sockets, code \in CloseCodes : handleSocketCloseNode(s, code)

SpecNode == InitNode /\ [][NextNode]_vars

\* ------------------------------------------------------------------- claims

SpeakingMsg == <<"state", SPEAKING>>

\* C1: a state=speaking data message handled while no remote track is attached
\* (outAnalyzer undefined) leaves the visible state as it was and sets the deferred
\* flag; the flag stays set through every other event; and the next track-subscribed
\* event makes the state Speaking, with no further state message.
C1_DeferredSpeaking ==
  [][ /\ (last' = "handleDataReceived" /\ emitted'[1] = SpeakingMsg /\ ~outAnalyzer)
           => (state' = state /\ delayedSpeakingState' /\ ~Has(emitted', "onStateChange"))
      /\ (delayedSpeakingState /\ last' # "handleTrackSubscribed")
           => delayedSpeakingState'
      /\ (delayedSpeakingState /\ last' = "handleTrackSubscribed")
           => (state' = SPEAKING /\ ~delayedSpeakingState')
    ]_vars

\* a deferred speaking was applied by a track-subscribed event
C1_Witness ==
  /\ last = "handleTrackSubscribed"
  /\ emitted = << <<"attach", "audioElement">>, <<"onStateChange", SPEAKING>> >>
  /\ state = SPEAKING

\* C2: in every reachable state, if the visible state is Speaking then a remote
\* track is attached (the output analyzer exists).
C2_SpeakingHasTrack == (state = SPEAKING) => outAnalyzer

\* a state=speaking message was applied directly, the track being attached already
C2_Witness ==
  /\ last = "handleDataReceived"
  /\ emitted = << SpeakingMsg, <<"onStateChange", SPEAKING>> >>
  /\ outAnalyzer

\* C3: publishTrack is called only at a moment when the session is started, the
\* room the session holds is connected and a local track exists.
C3_PublishOnlyWhenReady ==
  Has(emitted, "publishTrack")
    => (started /\ room # 0 /\ roomState[room] = "connected" /\ localAudioTrack)

\* the room_info handler published after the room connected
C3_Witness ==
  /\ last = "handleSocketMessage:connected"
  /\ Has(emitted, "publishTrack")

\* a step in which a start() call ran lines 164-165
StartDone == last' = "start:done"

\* a step in which the room_info handler resumed after its connect
ConnectDone == last' = "handleSocketMessage:connected"

\* C4 as claimed: start() called twice without a stop() in between publishes at most
\* once, so a start() that reaches line 165 after a publish publishes nothing.
C4_StartTwicePublishesOnce ==
  [][ (StartDone /\ published) => ~Has(emitted', "publishTrack") ]_vars

\* C5: after start() has captured the microphone and the session's room has
\* connected, in either order and with nothing published since the last stop(),
\* the track has been published exactly once: the later of the two events makes
\* the one publishTrack call, and the earlier one makes none.
C5_LaterEventPublishes ==
  [][ (StartDone \/ ConnectDone) =>
        LET ready == started' /\ localAudioTrack' /\ room' # 0
                     /\ roomState'[room'] = "connected"
        IN /\ (ready /\ ~published)
                => (Cardinality(Calls(emitted', "publishTrack")) = 1 /\ published')
           /\ ~ready => (~Has(emitted', "publishTrack") /\ published' = published)
    ]_vars

\* start() completed after the room had connected and made the publish
C5_Witness ==
  /\ last = "start:done"
  /\ Has(emitted, "publishTrack")
  /\ state = IDLE
  /\ published

\* C6 as claimed: once the local track has been published, a later room connect
\* without a stop() in between does not publish the same track again.
C6_NoRepublish ==
  [][ (ConnectDone /\ trackPublished) => ~Has(emitted', "publishTrack") ]_vars

\* every field of the session but _state, audioElement.muted and the socket
StartNoopFrame ==
  UNCHANGED <<audioStarted, started, room, roomState, localAudioTrack,
              delayedSpeakingState, inAnalyzer, outAnalyzer, pinger, leakedTimers,
              micPend, stopPend>>

StopCompleted == last \in {"stop:done", "stop2:done"}

\* C8 as claimed: stop() completes with the state Disconnected, no ping timer, no
\* room, no analyzers, no local track, no socket, and started and audioStarted false.
C8_StopLeavesNothing ==
  StopCompleted =>
    /\ state = DISCONNECTED
    /\ ~pinger
    /\ room = 0
    /\ ~inAnalyzer
    /\ ~outAnalyzer
    /\ ~localAudioTrack
    /\ socket = 0
    /\ ~started
    /\ ~audioStarted

\* C9 as claimed: a stop() called directly after a stop() that completed changes
\* no field of the session and fires no observer, and the state is Disconnected.
C9_SecondStopChangesNothing ==
  [][ (last' \in {"stop2:await", "stop2:done"}) =>
        /\ UNCHANGED <<state, muted, socket, sockState, audioStarted, started, room,
                       roomState, localAudioTrack, delayedSpeakingState, inAnalyzer,
                       outAnalyzer, pinger, leakedTimers>>
        /\ state' = DISCONNECTED
        /\ ~Has(emitted', "onStateChange")
    ]_vars

\* C10 as claimed: when the awaited room disconnect rejects, the other steps of
\* stop() still run: analyzers and track dropped, socket dropped, flags cleared and
\* the state Disconnected.
C10_StopBestEffort ==
  (last = "stop:rejected") =>
    /\ state = DISCONNECTED
    /\ ~inAnalyzer
    /\ ~outAnalyzer
    /\ ~localAudioTrack
    /\ socket = 0
    /\ ~started
    /\ ~audioStarted

\* C11 as claimed: a start() that was suspended at createLocalTracks while a stop() ran
\* to completion leaves, when it resumes and finishes, no local track, no input
\* analyzer, started false, nothing published and the state Disconnected.
C11_StopCancelsPendingStart ==
  [][ (StopCompleted /\ last' = "start:done") =>
        /\ ~localAudioTrack'
        /\ ~inAnalyzer'
        /\ ~started'
        /\ ~audioStarted'
        /\ ~Has(emitted', "publishTrack")
        /\ state' = DISCONNECTED
    ]_vars

\* C12 as claimed: when stop() has completed, no interval timer set by startPinger
\* is running, neither the one this.pinger holds nor one whose handle was lost.
C12_NoTimerAfterStop ==
  StopCompleted => (~pinger /\ ~leakedTimers)

\* every field of the session object
SessionFields ==
  <<state, muted, socket, sockState, audioStarted, started, room, roomState,
    localAudioTrack, delayedSpeakingState, inAnalyzer, outAnalyzer, pinger,
    leakedTimers, conversationId, outputTranscript>>

TextMessage == <<"publishData", "input_text_message">>

\* C13: sendText(text) sends an input_text_message on the data channel only when the
\* state is Listening (and then exactly one, on the room the session holds); in every
\* other state it sends nothing and throws nothing; it never changes a field.
C13_SendTextOnlyListening ==
  [][ (last' = "sendText") =>
        /\ UNCHANGED SessionFields
        /\ Has(emitted', "publishData") => (state = LISTENING /\ emitted' = <<TextMessage>>)
        /\ (state = LISTENING /\ room # 0) => emitted' = <<TextMessage>>
        /\ (state # LISTENING)
             => (~Has(emitted', "publishData") /\ ~Has(emitted', "throw"))
    ]_vars

\* sendText() in the Listening state sent the message
C13_Witness ==
  /\ last = "sendText"
  /\ state = LISTENING
  /\ emitted = <<TextMessage>>

InterruptMessage == <<"publishData", "interrupt">>

\* C14 as claimed: interrupt() sends nothing when the session is not started, sends
\* exactly one interrupt message when it is started, and leaves the state unchanged.
C14_InterruptWhenStarted ==
  [][ (last' = "interrupt") =>
        /\ state' = state
        /\ ~started => ~Has(emitted', "publishData")
        /\ started => emitted' = <<InterruptMessage>>
    ]_vars

\* C14 as amended: interrupt() changes no field; not started, it sends nothing; started
\* and holding a room, it sends exactly one interrupt message; started with no room
\* yet (or no room any more), it sends nothing.
C14_InterruptNeedsRoom ==
  [][ (last' = "interrupt") =>
        /\ UNCHANGED SessionFields
        /\ ~started => ~Has(emitted', "publishData")
        /\ (started /\ room # 0) => emitted' = <<InterruptMessage>>
        /\ (started /\ room = 0) => emitted' = <<>>
    ]_vars

\* interrupt() on a started session that has no room sent nothing
C14_Witness ==
  /\ last = "interrupt"
  /\ started
  /\ room = 0
  /\ emitted = <<>>

IsStateChange(e) == e[1] = "onStateChange"

\* the states the observer was told in a step, in order
Notified(em) == SelectSeq(em, IsStateChange)

\* C15: a step whose transitions all target the current state calls the observer not
\* at all and changes neither the state nor the mute flag; otherwise the observer is
\* called once per change, each time with a value that differs from the one before,
\* the first differs from the old state and the last is the new state.
C15_NotificationsAreChanges ==
  [][ LET ns == Notified(emitted')
          n == Len(ns)
      IN /\ (n = 0) => (state' = state /\ muted' = muted)
         /\ (n > 0) => /\ ns[1][2] # state
                       /\ ns[n][2] = state'
                       /\ \A i \in 1..(n - 1) : ns[i + 1][2] # ns[i][2]
    ]_vars

\* a state message whose target is the current state was handled silently
C15_Witness ==
  /\ last = "handleDataReceived"
  /\ emitted = << <<"state", LISTENING>> >>
  /\ state = LISTENING

\* C16 as claimed: in every reachable state, from construction on, the playback
\* element is muted exactly when the state is not Speaking.
C16_MutedIffNotSpeaking ==
  muted <=> (state # SPEAKING)

\* C17 as claimed: once conversationId has a value, no step changes it.
C17_ConversationIdStable ==
  [][ (conversationId # NoConversation) => (conversationId' = conversationId) ]_vars

\* a step that handled a conversation_created message
ConversationCreated ==
  /\ last' = "handleDataReceived"
  /\ emitted'[1][1] = "conversation_created"

C19_ConstructorWarmsUp ==
  (last = "constructor") => (state = DISCONNECTED /\ socket # 0)

\* a step in which start() was called (not one in which a suspended start() resumed)
StartCalled ==
  /\ last' \in {"start:already", "start:await", "start:done"}
  /\ micPend'.start >= micPend.start

\* C20: start() called in the Disconnected state (with a URL a WebSocket accepts)
\* first opens a new socket and makes the state Connecting, before it asks for the
\* microphone; start() called in any other state opens no socket.
C20_StartWarmsUp ==
  [][ StartCalled =>
        /\ (state = DISCONNECTED /\ urlValid)
             => /\ Len(emitted') >= 2
                /\ emitted'[1] = <<"newWebSocket", "url">>
                /\ emitted'[2] = <<"onStateChange", CONNECTING>>
                /\ Cardinality(Calls(emitted', "newWebSocket")) = 1
                /\ socket' # 0
                /\ sockState'[socket'] = "connecting"
                /\ (last' = "start:await") => state' = CONNECTING
        /\ (state # DISCONNECTED)
             => (~Has(emitted', "newWebSocket") /\ UNCHANGED <<socket, sockState>>)
    ]_vars

\* start() on a Disconnected session opened the socket, then asked for the microphone
C20_Witness ==
  /\ last = "start:await"
  /\ state = CONNECTING
  /\ emitted = << <<"newWebSocket", "url">>, <<"onStateChange", CONNECTING>>,
                  <<"createLocalTracks", "audio">> >>

\* a step that handled the CloseEvent of a socket, with code c
SocketClosedWith(c) ==
  /\ last' = "handleSocketClose"
  /\ emitted'[1] = <<"close", ToString(c)>>

\* a step that opens no socket and sets no timer that could open one later
NoReconnect ==
  /\ ~Has(emitted', "newWebSocket")
  /\ ~Has(emitted', "setInterval")
  /\ socket' = socket
  /\ LiveSockets(sockState') \subseteq LiveSockets(sockState)

\* the close codes that are neither the normal one nor the one of a duplicate
\* initialization
AbnormalCodes == CloseCodes \ {1000, 1006}

\* C21 as claimed: the step that handles the open event of a socket sends exactly
\* one init message, on the socket that opened, carrying the conversationId the
\* session has, and leaves the state Connected; no other step sends an init message.
C21_InitOnTheOpenedSocket ==
  [][ /\ last' = "handleSocketOpen" =>
           /\ Cardinality(Calls(emitted', "socketSend")) = 1
           /\ socket # 0
           /\ sockState[socket] = "connecting"
           /\ sockState'[socket] = "open"
           /\ \E i \in DOMAIN emitted' :
                 emitted'[i] = <<"init.conversationId", conversationId>>
           /\ state' = CONNECTED
      /\ last' # "handleSocketOpen" => ~Has(emitted', "socketSend")
    ]_vars

\* C22 as claimed: handling a closure with code 1000 opens no new socket, invokes
\* no error observer, and leaves the state Disconnected.
C22_NormalClosureIsQuiet ==
  [][ SocketClosedWith(1000) =>
        /\ NoReconnect
        /\ ~Has(emitted', "onError")
        /\ state' = DISCONNECTED ]_vars

\* C23 as claimed: handling an abnormal closure, with a code that is neither 1000
\* nor 1006, opens exactly one new socket.
C23_AbnormalClosureReopens ==
  [][ \A c \in AbnormalCodes :
        SocketClosedWith(c) => Cardinality(Calls(emitted', "newWebSocket")) = 1 ]_vars

\* C24 as claimed: handling a closure with code 1006 invokes no error observer and
\* attempts no reconnect.
C24_Code1006IsSilent ==
  [][ SocketClosedWith(1006) => (~Has(emitted', "onError") /\ NoReconnect) ]_vars

\* C25: handling a closure whose code is neither 1000 nor 1006 invokes the error
\* observer exactly once, leaves the state Disconnected, and neither opens a socket
\* nor schedules anything that would.
C25_AbnormalClosureReportsOnce ==
  [][ \A c \in AbnormalCodes :
        SocketClosedWith(c) =>
          /\ Cardinality(Calls(emitted', "onError")) = 1
          /\ state' = DISCONNECTED
          /\ NoReconnect ]_vars

\* an open socket was closed with code 1011: the state fell back to Disconnected
\* and the observer was told
C25_Witness ==
  /\ last = "handleSocketClose"
  /\ emitted = << <<"close", "1011">>, <<"onStateChange", DISCONNECTED>>,
                  <<"onError", "Socket closed unexpectedly">> >>
  /\ state = DISCONNECTED

\* a step that handled a pong message with timestamp T
PongHandled(T) ==
  /\ last' = "handleDataReceived"
  /\ emitted'[1][1] = "pong"
  /\ emitted'[2] = <<"msg.timestamp", ToString(T)>>

\* a step that handled a latency message with kind k and value v
LatencyHandled(k, v) ==
  /\ last' = "handleDataReceived"
  /\ emitted'[1][1] = "latency"
  /\ emitted'[2] = <<"msg.kind", k>>
  /\ emitted'[3] = <<"msg.value", ToString(v)>>

\* a step that handled a payload that is no JSON, or JSON that lacks a field its
\* branch reads
MalformedHandled ==
  \/ /\ last' = "handleDataReceived"
     /\ emitted'[1] \in {<<"malformed", "-">>, <<"transcript", "incomplete">>,
                          <<"latency", "incomplete">>}
  \/ /\ last' = "handleSocketMessage"
     /\ emitted'[1] = <<"message", "malformed">>

\* C26 as claimed: the handler of a malformed payload, on the socket or on the data
\* channel, raises no error and changes no field of the session.
C26_MalformedIsDropped ==
  [][ MalformedHandled => (~Has(emitted', "throw") /\ UNCHANGED SessionFields) ]_vars

\* a step that handled well-formed JSON whose type no branch knows
UnknownHandled ==
  \/ /\ last' = "handleDataReceived"
     /\ emitted'[1] = <<"unknown", "-">>
  \/ /\ last' = "handleSocketMessage"
     /\ emitted'[1] = <<"message", "unknown">>

\* C27: handling a message of an unrecognized type, on the socket or on the data
\* channel, changes no field of the session and calls no observer: at most it
\* writes a warning.
C27_UnknownTypeIsIgnored ==
  [][ UnknownHandled =>
        /\ UNCHANGED SessionFields
        /\ \A i \in 2..Len(emitted') : emitted'[i][1] = "warn" ]_vars

\* an unknown type arrived on the data channel of a session that is listening:
\* nothing was called
C27_Witness ==
  /\ last = "handleDataReceived"
  /\ emitted = << <<"unknown", "-">> >>
  /\ state = LISTENING

\* C28: handling the pong that answers a ping the session sent with timestamp T
\* invokes the latency observer exactly once, with metric workerRtt and the value
\* now - T, which is not negative; handling a latency message invokes it exactly
\* once with that message's kind and value, unchanged.
C28_LatencyRoundTrip ==
  [][ /\ \A T \in pings :
           PongHandled(T) =>
             /\ SubSeq(emitted', 3, Len(emitted'))
                  = << <<"onLatencyChange", "workerRtt">>,
                       <<"onLatencyChange.value", ToString(now - T)>> >>
             /\ now - T >= 0
      /\ \A k \in LatencyKinds, v \in LatencyValues :
           LatencyHandled(k, v) =>
             SubSeq(emitted', 4, Len(emitted'))
               = << <<"onLatencyChange", k>>, <<"onLatencyChange.value", ToString(v)>> >>
    ]_vars

\* a ping sent at 0 was answered when the clock read 1: the sample is 1
C28_Witness ==
  /\ last = "handleDataReceived"
  /\ 0 \in pings
  /\ now = 1
  /\ emitted = << <<"pong", "-">>, <<"msg.timestamp", "0">>,
                  <<"onLatencyChange", "workerRtt">>, <<"onLatencyChange.value", "1">> >>

\* a step that handled a voice_synced_transcript message
TranscriptHandled(text, delta, final) ==
  /\ last' = "handleDataReceived"
  /\ emitted'[1][1] = "voice_synced_transcript"
  /\ emitted'[2] = <<"msg.text", text>>
  /\ emitted'[3] = <<"msg.delta", delta>>
  /\ emitted'[4] = <<"msg.final", ToString(final)>>

\* C29: every voice_synced_transcript message makes one output callback whose text
\* is the reference accumulator's value (a non-empty text replaces the transcript,
\* otherwise a non-empty delta is appended to it) and whose flag is the message's
\* final flag, and leaves that value as the transcript, or the empty one after a
\* final message.
C29_TranscriptAccumulates ==
  [][ \A text \in TranscriptTexts, delta \in TranscriptDeltas, final \in BOOLEAN :
        LET accumulated == IF text # "" THEN text
                           ELSE IF delta # "" THEN outputTranscript \o delta
                           ELSE outputTranscript
        IN TranscriptHandled(text, delta, final) =>
             /\ SubSeq(emitted', 5, Len(emitted'))
                  = << <<"onOutputChange", accumulated>>,
                       <<"onOutputChange.final", ToString(final)>> >>
             /\ outputTranscript' = IF final THEN "" ELSE accumulated
    ]_vars

\* delta "He" and then delta "llo", with no text: the callback gets "Hello"
C29_Witness ==
  /\ last = "handleDataReceived"
  /\ emitted = << <<"voice_synced_transcript", "-">>, <<"msg.text", "">>,
                  <<"msg.delta", "llo">>, <<"msg.final", "FALSE">>,
                  <<"onOutputChange", "Hello">>, <<"onOutputChange.final", "FALSE">> >>
  /\ outputTranscript = "Hello"

\* sockets on which close() was never called and that did not close by themselves
OpenSockets(ss) == {s \in Sockets : ss[s] \in {"connecting", "open"}}

\* rooms that are connecting or connected
LiveRooms(rs) == {r \in Rooms : rs[r] \in {"connecting", "connected"}}

\* C30 as claimed: a step creates a socket only when close() was called on every
\* socket created before, and a room only when every room created before has been
\* disconnected, so that there are never two live sockets or two live rooms.
C30_TeardownBeforeReplace ==
  [][ /\ Has(emitted', "newWebSocket") => OpenSockets(sockState) = {}
      /\ Has(emitted', "newRoom") => LiveRooms(roomState) = {}
      /\ Cardinality(OpenSockets(sockState')) <= 1
      /\ Cardinality(LiveRooms(roomState')) <= 1 ]_vars

\* C31: when the microphone is refused to a start(), that start() rejects and the
\* step changes no field: started and audioStarted stay as they were, no track and
\* no input analyzer is stored, nothing is published; and a room that connects while
\* the session is not started publishes nothing.
C31_FailedStartLeavesNotStarted ==
  [][ /\ last' = "start:rejected" =>
           /\ emitted' = << <<"reject", "start">> >>
           /\ UNCHANGED SessionFields
           /\ UNCHANGED <<published, trackPublished>>
      /\ (last' = "handleSocketMessage:connected" /\ ~started) =>
           ~Has(emitted', "publishTrack")
    ]_vars

\* the only start() of a session with a connected room was refused the microphone:
\* the session is not started, holds no track and has published nothing
C31_Witness ==
  /\ last = "start:rejected"
  /\ ~started /\ ~audioStarted /\ ~localAudioTrack /\ ~inAnalyzer
  /\ room # 0 /\ roomState[room] = "connected"
  /\ ~published

\* C32: warmup(), called directly or by start(), on a Disconnected session whose URL
\* the WebSocket constructor rejects calls the error observer exactly once, throws
\* nothing, stores no socket and leaves the state Disconnected.
C32_SocketFailureIsReported ==
  [][ ((last' = "warmup" \/ StartCalled) /\ state = DISCONNECTED /\ ~urlValid) =>
        /\ Cardinality(Calls(emitted', "onError")) = 1
        /\ ~Has(emitted', "throw")
        /\ ~Has(emitted', "newWebSocket")
        /\ socket' = socket
        /\ state' = DISCONNECTED ]_vars

\* start() with a URL that is rejected: the observer is told, the call goes on to
\* ask for the microphone, the state is still Disconnected
C32_Witness ==
  /\ last = "start:await"
  /\ ~urlValid
  /\ emitted = << <<"onError", "Failed to create socket">>,
                  <<"createLocalTracks", "audio">> >>
  /\ state = DISCONNECTED

\* C33 as claimed: the state is always one of the seven values of VoiceSessionState.
C33_StateIsEnumerated ==
  state \in VoiceSessionState

\* C34 as claimed: a step that initiates the room connection has registered the
\* track-subscribed and the data-received handlers earlier in the same step.
C34_HandlersBeforeConnect ==
  [][ \A k \in 1..Len(emitted') :
        emitted'[k] = <<"connect", "room">> =>
          /\ \E i \in 1..(k - 1) : emitted'[i] = <<"on", "TrackSubscribed">>
          /\ \E j \in 1..(k - 1) : emitted'[j] = <<"on", "DataReceived">> ]_vars

\* C35 as claimed: no ping timer is ever running without a handle that stop() can
\* clear, so at most one ping timer is active.
C35_SinglePingTimer ==
  ~leakedTimers

\* the socket whose close event the step handled is not the one the session holds
StaleSocketClosed ==
  /\ last' = "handleSocketClose"
  /\ socket # 0
  /\ sockState'[socket] = sockState[socket]

\* C36 as claimed: the close event of a socket that is no longer the session's
\* socket leaves the visible state alone and does not call the error observer.
C36_StaleCloseIgnored ==
  [][ StaleSocketClosed => (state' = state /\ ~Has(emitted', "onError")) ]_vars

\* C37 as claimed: when stop() has completed, no deferred Speaking transition is
\* pending for a later track subscription to apply.
C37_StopDropsDeferredSpeaking ==
  StopCompleted => ~delayedSpeakingState

\* the step before handled a state message that asked for a state other than Speaking
LaterStateApplied ==
  /\ last = "handleDataReceived"
  /\ emitted[1][1] = "state"
  /\ emitted[1][2] # SPEAKING

\* C38 as claimed: a track subscription that follows a state message for a state
\* other than Speaking does not move the session to Speaking.
C38_DeferredSpeakingSuperseded ==
  [][ (LaterStateApplied /\ last' = "handleTrackSubscribed") => state' # SPEAKING ]_vars

\* C39 as claimed: while the state is Disconnected the session holds no connected
\* room and no ping timer, and is not started.
C39_DisconnectedHoldsNothing ==
  state = DISCONNECTED =>
    /\ room = 0 \/ roomState[room] # "connected"
    /\ ~pinger
    /\ ~started

\* a step that ran maybePublishLocalAudio: the end of start() (line 165) or of the
\* room_info handler (line 283)
PublishEvaluated == last' \in {"start:done", "handleSocketMessage:connected"}

\* the state maybePublishLocalAudio found: the step's warmup(), if it opened a
\* socket, has moved a Disconnected session to Connecting before
PrePublishState ==
  IF Has(emitted', "newWebSocket") THEN CONNECTING ELSE state

\* C40: a step publishes at most once; after a publish the state is Idle and the
\* observer was told Idle exactly when the state was another one before; an
\* evaluation that does not publish changes no state and tells the observer nothing.
C40_PublishMovesToIdle ==
  [][ /\ Has(emitted', "publishTrack") =>
           /\ Cardinality(Calls(emitted', "publishTrack")) = 1
           /\ PublishEvaluated
           /\ LET k == CHOOSE i \in Calls(emitted', "publishTrack") : TRUE
                  rest == SubSeq(emitted', k + 1, Len(emitted'))
              IN /\ state' = IDLE
                 /\ rest = IF PrePublishState = IDLE
                             THEN <<>>
                             ELSE << <<"onStateChange", IDLE>> >>
      /\ (PublishEvaluated /\ ~Has(emitted', "publishTrack")) =>
           /\ state' = PrePublishState
           /\ Notified(emitted') = IF Has(emitted', "newWebSocket")
                                     THEN << <<"onStateChange", CONNECTING>> >>
                                     ELSE <<>>
    ]_vars

\* the room of a started session connected: the track was published and the
\* session moved from Connected to Idle
C40_Witness ==
  /\ last = "handleSocketMessage:connected"
  /\ emitted = << <<"setInterval", "pinger">>, <<"publishTrack", "audio">>,
                  <<"onStateChange", IDLE>> >>
  /\ state = IDLE
====
